---------------------------- MODULE Spec2Model ----------------------------
(***************************************************************************)
(* A model of giscanner/cachestore.py (the mtime-validated pickle cache)   *)
(* and giscanner/ccompiler.py (link flags and the Windows import-library   *)
(* resolver) of gobject-introspection.                                     *)
(*                                                                         *)
(* Strings the code inspects character by character (library names,       *)
(* search directories, tool output) are sequences of one-character         *)
(* strings.  Exceptions are records [cls, errno].  File times come from    *)
(* one clock, `now`, so no file carries a modification time in the future. *)
(***************************************************************************)
EXTENDS Naturals, Sequences, FiniteSets

VARIABLES
    (* ---- cachestore.py ---- *)
    cachedirSt,     \* what ~/.cache is: "absent", "dir" or "file"
    scannerdirSt,   \* what ~/.cache/g-ir-scanner is: "absent", "dir" or "file"
    ctor,           \* CacheStore(): "none" (not yet called), "ok", "raised"
    ctorExc,        \* the exception that left CacheStore(), or NoExc
    mkdirErrs,      \* the errno of every os.mkdir that failed in CacheStore()
    directory,      \* CacheStore._directory
    fs,             \* the store files, by store filename
    srcMtime,       \* st_mtime of the source file each key names
    now,            \* the filesystem clock
    log,            \* the last store/load calls since the files were last
                    \* changed from outside, oldest first
    (* ---- ccompiler.py: link flags ---- *)
    linkCall,       \* the arguments of the last get_*_link_flags call
    linkArgs,       \* the list `args` after that call
    (* ---- ccompiler.py: resolve_windows_libs ---- *)
    rpc,            \* "idle", "loop" (in `for lib in libraries`), "done"
                    \* (returned) or "exit" (SystemExit)
    rMsvc,          \* check_is_msvc()
    rLibs,          \* libraries
    rFiles,         \* the import libraries on disk: path -> the lines the
                    \* tool prints for it
    libsearch,
    li,             \* how many libraries the loop has been through
    shlibs,
    not_resolved,
    scans,          \* per library gone through: the paths handed to
                    \* os.path.exists and to the tool, in order
    exitMsg         \* the argument of SystemExit, or <<>>

cacheVars == <<cachedirSt, scannerdirSt, ctor, ctorExc, mkdirErrs, directory,
               fs, srcMtime, now, log>>
linkVars == <<linkCall, linkArgs>>
resolveVars == <<rpc, rMsvc, rLibs, rFiles, libsearch, li, shlibs,
                 not_resolved, scans, exitMsg>>
vars == <<cacheVars, linkVars, resolveVars>>

(***************************************************************************)
(* Bounds of the model.                                                    *)
(***************************************************************************)
MaxTime == 2
MaxLog == 3

Keys == {"a.h"}
Values == {"v1", "v2"}

None == "None"
NoExc == [cls |-> "none", errno |-> "none"]
Exc(c, e) == [cls |-> c, errno |-> e]

(***************************************************************************)
(* cachestore.py                                                           *)
(***************************************************************************)

\* os.mkdir(path, 0755) raises OSError carrying the errno of the failure.
MkdirErrnos == {"OK", "EPERM", "EACCES"}

\* _get_cachedir(): the home directory as found, the outcome chosen for each
\* os.mkdir it may call.  Returns the exception raised (or NoExc), the value
\* returned, and the two directories as it leaves them.
_get_cachedir(cst, sst, e1, e2) ==
    LET mk1 == cst = "absent"                  \* not os.path.exists(cachedir)
        c1 == IF mk1 /\ e1 = "OK" THEN "dir" ELSE cst
    IN  IF mk1 /\ e1 # "OK"
        THEN [exc |-> Exc("OSError", e1), ret |-> None, cst |-> cst, sst |-> sst,
              errs |-> {e1}]
        ELSE IF c1 = "file"
        \* nothing exists below a regular file and mkdir there is ENOTDIR
        THEN [exc |-> Exc("OSError", "ENOTDIR"), ret |-> None, cst |-> c1,
              sst |-> sst, errs |-> {"ENOTDIR"}]
        ELSE IF sst = "absent"
        THEN IF e2 = "OK"
             THEN [exc |-> NoExc, ret |-> "g-ir-scanner", cst |-> c1,
                   sst |-> "dir", errs |-> {}]
             ELSE [exc |-> Exc("OSError", e2), ret |-> None, cst |-> c1,
                   sst |-> sst, errs |-> {e2}]
        ELSE IF sst # "dir"
        THEN [exc |-> NoExc, ret |-> None, cst |-> c1, sst |-> sst, errs |-> {}]
        ELSE [exc |-> NoExc, ret |-> "g-ir-scanner", cst |-> c1, sst |-> sst,
              errs |-> {}]

\* CacheStore.__init__: `except OSError, e: if e.errno != errno.EPERM: raise`.
CacheStoreInit(cst, sst, e1, e2) ==
    LET r == _get_cachedir(cst, sst, e1, e2)
    IN  IF r.exc.cls = "OSError" /\ r.exc.errno # "EPERM"
        THEN [r EXCEPT !.ret = None]
        ELSE [r EXCEPT !.exc = NoExc, !.ret = IF r.exc = NoExc THEN r.ret ELSE None]

\* hashlib.sha1(filename).hexdigest(): one digest per key, no two keys alike.
Sha1(k) == <<"sha1", k>>

\* CacheStore._get_filename
_get_filename(dir, k) == IF dir = None THEN None ELSE <<dir, Sha1(k)>>

StoreNames == {<<"g-ir-scanner", Sha1(k)>> : k \in Keys}

Absent == [exists |-> FALSE, content |-> <<>>, mtime |-> 0]

Mut_cache_is_valid_strict(storeMtime, sourceMtime) == storeMtime > sourceMtime

Mut_cache_is_valid_always(storeMtime, sourceMtime) == TRUE

Mut_cache_is_valid_reversed(storeMtime, sourceMtime) == storeMtime <= sourceMtime

\* CacheStore._cache_is_valid
_cache_is_valid(storeMtime, sourceMtime) == storeMtime >= sourceMtime

\* cPickle.dump: the bytes of a pickled value, closed by the STOP opcode.
Dumps(v) == <<v, ".">>

Mut_Loads_lenient(c) ==
    IF Len(c) >= 2 /\ c[Len(c)] = "."
    THEN [exc |-> NoExc, data |-> c[1]]
    ELSE [exc |-> NoExc, data |-> None]

\* cPickle.load: EOFError unless the stream runs to the STOP opcode.
Loads(c) ==
    IF Len(c) >= 2 /\ c[Len(c)] = "."
    THEN [exc |-> NoExc, data |-> c[1]]
    ELSE [exc |-> Exc("EOFError", "none"), data |-> None]

\* os.unlink raises OSError.
UnlinkErrnos == {"OK", "EACCES", "ENOENT", "EBUSY"}
UnlinkRaises(e) == IF e = "OK" THEN NoExc ELSE Exc("OSError", e)

\* The file after os.unlink: gone when the call succeeds, and found gone
\* already when it fails with ENOENT.
Unlink(f, e) == IF e \in {"OK", "ENOENT"} THEN Absent ELSE f

\* CacheStore._purge_cache: `except IOError, e` with EACCES and ENOENT
\* swallowed.  Returns the exception that leaves the helper.
_purge_cache(e) ==
    LET x == UnlinkRaises(e)
    IN  IF x.cls = "IOError"
        THEN IF x.errno = "EACCES" THEN NoExc
             ELSE IF x.errno = "ENOENT" THEN NoExc
             ELSE x
        ELSE x

\* cPickle.dump raises IOError when the write fails.
DumpErrnos == {"OK", "ENOSPC", "EIO"}

\* The attributes of an IOError instance (args, errno, strerror, filename,
\* message): the handler of store reads e.errno and e.ENOSPC.
IOErrorAttrs == {"args", "errno", "strerror", "filename", "message"}

\* The handler of store, `if e.errno == e.ENOSPC: return / else: raise`:
\* the exception that leaves store when cPickle.dump raised IOError(e).
StoreHandler(e) ==
    IF "ENOSPC" \notin IOErrorAttrs
    THEN Exc("AttributeError", "none")
    ELSE IF e = "ENOSPC" THEN NoExc ELSE Exc("IOError", e)

Rec(op, k, v, out, exc, ret, pre, fault) ==
    [op |-> op, k |-> k, v |-> v, out |-> out, exc |-> exc, ret |-> ret,
     pre |-> pre, fault |-> fault]

\* The log keeps the last MaxLog consecutive calls on one key.
Push(l, r) ==
    IF l # <<>> /\ l[1].k # r.k THEN <<r>>
    ELSE IF Len(l) < MaxLog THEN Append(l, r) ELSE Append(Tail(l), r)

\* CacheStore(): the constructor, with the outcome of each os.mkdir.
Construct ==
    /\ ctor = "none"
    /\ \E e1 \in MkdirErrnos, e2 \in MkdirErrnos :
         LET r == CacheStoreInit(cachedirSt, scannerdirSt, e1, e2)
         IN  /\ ctor' = IF r.exc = NoExc THEN "ok" ELSE "raised"
             /\ ctorExc' = r.exc
             /\ mkdirErrs' = r.errs
             /\ directory' = r.ret
             /\ cachedirSt' = r.cst
             /\ scannerdirSt' = r.sst
    /\ UNCHANGED <<fs, srcMtime, now, log>>

\* CacheStore.store(filename, data); e is the outcome of cPickle.dump and n
\* the number of bytes that reached the file when it failed.
Store(k, v, e, n) ==
    LET fn == _get_filename(directory, k)
    IN  /\ ctor = "ok"
        /\ IF fn = None
           THEN /\ log' = Push(log, Rec("store", k, v, "noop", NoExc, None,
                                        Absent, "OK"))
                /\ UNCHANGED fs
           ELSE IF fs[fn].exists /\ _cache_is_valid(fs[fn].mtime, srcMtime[k])
           THEN /\ log' = Push(log, Rec("store", k, v, "skipped", NoExc, None,
                                        fs[fn], "OK"))
                /\ UNCHANGED fs
           ELSE IF e = "OK"
           THEN /\ fs' = [fs EXCEPT ![fn] = [exists |-> TRUE,
                                             content |-> Dumps(v),
                                             mtime |-> now]]
                /\ log' = Push(log, Rec("store", k, v, "wrote", NoExc, None,
                                        fs[fn], e))
           ELSE /\ fs' = [fs EXCEPT ![fn] = [exists |-> TRUE,
                                             content |-> SubSeq(Dumps(v), 1, n),
                                             mtime |-> now]]
                /\ log' = Push(log, Rec("store", k, v,
                                        IF StoreHandler(e) = NoExc
                                        THEN "failed" ELSE "raised",
                                        StoreHandler(e), None,
                                        fs[fn], e))
        /\ UNCHANGED <<cachedirSt, scannerdirSt, ctor, ctorExc, mkdirErrs,
                       directory, srcMtime, now>>

\* CacheStore.load(filename); e is the outcome of os.unlink in _purge_cache.
Load(k, e) ==
    LET fn == _get_filename(directory, k)
    IN  /\ ctor = "ok"
        /\ IF fn = None
           THEN /\ log' = Push(log, Rec("load", k, None, "returned", NoExc, None,
                                        Absent, "OK"))
                /\ UNCHANGED fs
           ELSE IF ~fs[fn].exists            \* open: IOError ENOENT
           THEN /\ log' = Push(log, Rec("load", k, None, "returned", NoExc, None,
                                        fs[fn], "OK"))
                /\ UNCHANGED fs
           ELSE IF ~_cache_is_valid(fs[fn].mtime, srcMtime[k])
           THEN /\ log' = Push(log, Rec("load", k, None, "returned", NoExc, None,
                                        fs[fn], "OK"))
                /\ UNCHANGED fs
           ELSE IF Loads(fs[fn].content).exc.cls = "EOFError"
           THEN /\ fs' = [fs EXCEPT ![fn] = Unlink(fs[fn], e)]
                /\ log' = Push(log, Rec("load", k, None,
                                        IF _purge_cache(e) = NoExc
                                        THEN "returned" ELSE "raised",
                                        _purge_cache(e), None,
                                        fs[fn], e))
           ELSE /\ log' = Push(log, Rec("load", k, None, "returned", NoExc,
                                        Loads(fs[fn].content).data,
                                        fs[fn], "OK"))
                /\ UNCHANGED fs
        /\ UNCHANGED <<cachedirSt, scannerdirSt, ctor, ctorExc, mkdirErrs,
                       directory, srcMtime, now>>

\* store reaches cPickle.dump: caching is on and no valid entry exists.
StoreWrites(k) ==
    LET fn == _get_filename(directory, k)
    IN  /\ fn # None
        /\ ~(fs[fn].exists /\ _cache_is_valid(fs[fn].mtime, srcMtime[k]))

\* load reaches _purge_cache: a valid entry that cPickle.load cannot read.
LoadPurges(k) ==
    LET fn == _get_filename(directory, k)
    IN  /\ fn # None
        /\ fs[fn].exists
        /\ _cache_is_valid(fs[fn].mtime, srcMtime[k])
        /\ Loads(fs[fn].content).exc.cls = "EOFError"

\* The environment: the source file of k is modified.
Touch(k) ==
    /\ srcMtime[k] # now
    /\ srcMtime' = [srcMtime EXCEPT ![k] = now]
    /\ log' = <<>>
    /\ UNCHANGED <<cachedirSt, scannerdirSt, ctor, ctorExc, mkdirErrs,
                   directory, fs, now>>

\* The environment: a store file is cut short (to n bytes).
Truncate(fn, n) ==
    /\ fs[fn].exists
    /\ n < Len(fs[fn].content)
    /\ fs' = [fs EXCEPT ![fn] = [exists |-> TRUE,
                                 content |-> SubSeq(fs[fn].content, 1, n),
                                 mtime |-> now]]
    /\ log' = <<>>
    /\ UNCHANGED <<cachedirSt, scannerdirSt, ctor, ctorExc, mkdirErrs,
                   directory, srcMtime, now>>

\* The environment: time passes.
Tick ==
    /\ now < MaxTime
    /\ now' = now + 1
    /\ UNCHANGED <<cachedirSt, scannerdirSt, ctor, ctorExc, mkdirErrs,
                   directory, fs, srcMtime, log>>

(***************************************************************************)
(* ccompiler.py: strings                                                   *)
(***************************************************************************)
RECURSIVE Flatten(_)
\* ''.join(parts)
Flatten(parts) == IF parts = <<>> THEN <<>> ELSE Head(parts) \o Flatten(Tail(parts))

\* str.startswith
StartsWith(s, pre) == Len(s) >= Len(pre) /\ SubSeq(s, 1, Len(pre)) = pre

\* str.endswith
EndsWith(s, suf) ==
    Len(s) >= Len(suf) /\ SubSeq(s, Len(s) - Len(suf) + 1, Len(s)) = suf

\* `sub in s`
Contains(s, sub) ==
    \E i \in 1..(Len(s) + 1) :
        i + Len(sub) <= Len(s) + 1 /\ SubSeq(s, i, i + Len(sub) - 1) = sub

\* os.path.isabs (posixpath)
IsAbs(p) == StartsWith(p, <<"/">>)

(***************************************************************************)
(* ccompiler.py: check_is_msvc and the link flags                          *)
(***************************************************************************)
\* The distutils compiler class behind self.compiler.
Compilers == {"msvc", "mingw32", "unix"}

\* CCompiler.check_is_msvc
check_is_msvc(compiler) == compiler = "msvc"

Mut_InternalLibraryFlag_no_la(compiler, library) ==
    IF check_is_msvc(compiler)
    THEN library \o <<".", "l", "i", "b">>
    ELSE <<"-", "l">> \o library

\* The body of `for library in libraries` in get_internal_link_flags.
InternalLibraryFlag(compiler, library) ==
    IF check_is_msvc(compiler)
    THEN library \o <<".", "l", "i", "b">>
    ELSE IF EndsWith(library, <<".", "l", "a">>)
         THEN library
         ELSE <<"-", "l">> \o library

\* The body of `for library in libraries` in get_external_link_flags.
ExternalLibraryFlag(compiler, library) ==
    IF check_is_msvc(compiler)
    THEN library \o <<".", "l", "i", "b">>
    ELSE IF EndsWith(library, <<".", "l", "a">>)
         THEN library
         ELSE <<"-", "l">> \o library

\* The body of `for library_path in libpaths` in get_internal_link_flags.
LibraryPathFlags(compiler, libtool, library_path) ==
    IF check_is_msvc(compiler)
    THEN <<>>
    ELSE <<<<"-", "L">> \o library_path>> \o
         (IF IsAbs(library_path)
          THEN IF libtool
               THEN <<<<"-", "r", "p", "a", "t", "h">>, library_path>>
               ELSE <<<<"-", "W", "l", ",", "-", "r", "p", "a", "t", "h",
                       "=">> \o library_path>>
          ELSE <<>>)

\* The flags get_internal_link_flags appends before the libraries.
InternalPrefix(compiler, libtool) ==
    IF check_is_msvc(compiler)
    THEN <<>>
    ELSE <<<<"-", "L", ".">>>> \o
         (IF libtool THEN <<>>
          ELSE <<<<"-", "W", "l", ",", "-", "r", "p", "a", "t", "h", "=",
                  ".">>,
                 <<"-", "W", "l", ",", "-", "-", "n", "o", "-", "a", "s",
                         "-", "n", "e", "e", "d", "e", "d">>>>)

\* CCompiler.get_internal_link_flags: the list `args` after the call.
get_internal_link_flags(compiler, args, libtool, libraries, libpaths) ==
    args
    \o InternalPrefix(compiler, libtool)
    \o [j \in 1..Len(libraries) |-> InternalLibraryFlag(compiler, libraries[j])]
    \o Flatten([j \in 1..Len(libpaths) |->
                    LibraryPathFlags(compiler, libtool, libpaths[j])])

\* CCompiler.get_external_link_flags: the list `args` after the call.
get_external_link_flags(compiler, args, libraries) ==
    args
    \o [j \in 1..Len(libraries) |-> ExternalLibraryFlag(compiler, libraries[j])]

\* The inputs of the link-flag calls.
MaxLibs == 2
LibraryNames ==
    {<<"f", "o", "o">>, <<"f", ".", "l", "a">>, <<"l", "a">>, <<".", "l", "a">>}
RECURSIVE SeqsUpTo(_, _)
SeqsUpTo(S, n) ==
    IF n = 0 THEN {<<>>}
    ELSE LET shorter == SeqsUpTo(S, n - 1)
         IN  shorter \cup {Append(s, x) : s \in shorter, x \in S}
LibraryLists == SeqsUpTo(LibraryNames, MaxLibs)
LibPathLists == {<<>>, <<<<"/", "p">>>>, <<<<"q">>, <<"/", "p">>>>}
ArgLists == {<<>>, <<<<"-", "o">>>>}

NoLinkCall == [fn |-> "none", compiler |-> "unix", args |-> <<>>,
               libtool |-> FALSE, libraries |-> <<>>, libpaths |-> <<>>]

\* One link line is built per run, on an `args` the caller began.
GetInternalLinkFlags ==
    /\ linkCall.fn = "none"
    /\ \E c \in Compilers, a \in ArgLists, lt \in BOOLEAN,
          libs \in LibraryLists, paths \in LibPathLists :
        /\ linkCall' = [fn |-> "internal", compiler |-> c, args |-> a,
                        libtool |-> lt, libraries |-> libs, libpaths |-> paths]
        /\ linkArgs' = get_internal_link_flags(c, a, lt, libs, paths)

GetExternalLinkFlags ==
    /\ linkCall.fn = "none"
    /\ \E c \in Compilers, a \in ArgLists, libs \in LibraryLists :
        /\ linkCall' = [fn |-> "external", compiler |-> c, args |-> a,
                        libtool |-> FALSE, libraries |-> libs, libpaths |-> <<>>]
        /\ linkArgs' = get_external_link_flags(c, a, libs)

(***************************************************************************)
(* ccompiler.py: resolve_windows_libs                                      *)
(***************************************************************************)
RECURSIVE SplitOn(_, _)
\* str.split(sep) for a separator of one character: empty fields are kept.
SplitOn(s, sep) ==
    IF \A i \in 1..Len(s) : s[i] # sep
    THEN <<s>>
    ELSE LET i == CHOOSE i \in 1..Len(s) :
                      s[i] = sep /\ \A j \in 1..(i - 1) : s[j] # sep
         IN  <<SubSeq(s, 1, i - 1)>> \o SplitOn(SubSeq(s, i + 1, Len(s)), sep)

\* str.split(): fields between runs of whitespace, no empty field.
SplitWs(s) == SelectSeq(SplitOn(s, " "), LAMBDA t : t # <<>>)

\* os.path.join(l, c) for a relative c
PathJoin(l, c) ==
    IF l = <<>> \/ EndsWith(l, <<"/">>) THEN l \o c ELSE l \o <<"/">> \o c

Mut_Candidates_msvc_first(lib) ==
    << lib \o <<".", "l", "i", "b">>,
       <<"l", "i", "b">> \o lib \o <<".", "d", "l", "l", ".", "a">>,
       <<"l", "i", "b">> \o lib \o <<".", "a">>,
       lib \o <<".", "d", "l", "l", ".", "a">>,
       lib \o <<".", "a">> >>

\* The list `candidates` of one library.
Candidates(lib) ==
    << <<"l", "i", "b">> \o lib \o <<".", "d", "l", "l", ".", "a">>,
       <<"l", "i", "b">> \o lib \o <<".", "a">>,
       lib \o <<".", "d", "l", "l", ".", "a">>,
       lib \o <<".", "a">>,
       lib \o <<".", "l", "i", "b">> >>

\* `if l.startswith('='): l = l[1:]`
StripMarker(l) == IF StartsWith(l, <<"=">>) THEN SubSeq(l, 2, Len(l)) ELSE l

ImportDescriptor == <<"_", "_", "I", "M", "P", "O", "R", "T", "_", "D",
        "E", "S", "C", "R", "I", "P", "T", "O", "R", "_">>

\* The first token of line_tokens that starts with __IMPORT_DESCRIPTOR_
\* gives item[20:] + '.dll'.
ParseMsvcLine(line) ==
    LET toks == SplitWs(line)
        hits == {j \in 1..Len(toks) : StartsWith(toks[j], ImportDescriptor)}
    IN  IF Contains(line, ImportDescriptor) /\ hits # {}
        THEN LET j == CHOOSE j \in hits : \A h \in hits : j <= h
             IN  [found |-> TRUE,
                  name |-> SubSeq(toks[j], 21, Len(toks[j])) \o <<".",
                          "d", "l", "l">>]
        ELSE [found |-> FALSE, name |-> <<>>]

\* `for line in o.splitlines()`: what the output of the tool yields.
ParseOutput(msvc, lines) ==
    IF msvc
    THEN LET hits == {j \in 1..Len(lines) : ParseMsvcLine(lines[j]).found}
         IN  IF hits = {} THEN [found |-> FALSE, name |-> <<>>]
             ELSE ParseMsvcLine(lines[CHOOSE j \in hits : \A h \in hits : j <= h])
    ELSE IF Len(lines) > 0
         THEN [found |-> TRUE, name |-> lines[1]]
         ELSE [found |-> FALSE, name |-> <<>>]

RECURSIVE ScanFrom(_, _, _, _, _, _, _)
\* The two inner loops of resolve_windows_libs for one library, from
\* candidate c of search directory d on: every path handed to
\* os.path.exists and every path handed to the tool, in order.
ScanFrom(msvc, search, files, cands, d, c, acc) ==
    IF d > Len(search)
    THEN acc
    ELSE IF c > Len(cands)
    THEN ScanFrom(msvc, search, files, cands, d + 1, 1, acc)
    ELSE LET implib == PathJoin(StripMarker(search[d]), cands[c])
             seen == [acc EXCEPT !.probed = Append(acc.probed, implib)]
         IN  IF implib \in DOMAIN files
             THEN LET r == ParseOutput(msvc, files[implib])
                      ran == [seen EXCEPT !.invoked = Append(seen.invoked, implib)]
                  IN  IF r.found
                      THEN [ran EXCEPT !.found = TRUE,
                                       !.names = Append(ran.names, r.name)]
                      ELSE ScanFrom(msvc, search, files, cands, d, c + 1, ran)
             ELSE ScanFrom(msvc, search, files, cands, d, c + 1, seen)

\* One pass of `for lib in libraries`.
ScanLib(msvc, search, files, lib) ==
    ScanFrom(msvc, search, files, Candidates(lib), 1, 1,
             [found |-> FALSE, names |-> <<>>, probed |-> <<>>, invoked |-> <<>>])

RECURSIVE JoinComma(_)
\* ", ".join(names)
JoinComma(names) ==
    IF names = <<>> THEN <<>>
    ELSE IF Len(names) = 1 THEN names[1]
    ELSE names[1] \o <<",", " ">> \o JoinComma(Tail(names))

Mut_ExitMessage_first(unresolved) ==
    <<"E", "R", "R", "O", "R", ":", " ", "c", "a", "n", "'", "t", " ",
            "r", "e", "s", "o", "l", "v", "e", " ", "l", "i", "b", "r",
                    "a", "r", "i", "e", "s", " ", "t", "o", " ", "s", "h",
                            "a", "r", "e", "d", " ", "l", "i", "b", "r",
                                    "a", "r", "i", "e", "s", ":", " ">>
        \o unresolved[1]

\* The argument of SystemExit.
ExitMessage(unresolved) ==
    <<"E", "R", "R", "O", "R", ":", " ", "c", "a", "n", "'", "t", " ",
            "r", "e", "s", "o", "l", "v", "e", " ", "l", "i", "b", "r",
                    "a", "r", "i", "e", "s", " ", "t", "o", " ", "s", "h",
                            "a", "r", "e", "d", " ", "l", "i", "b", "r",
                                    "a", "r", "i", "e", "s", ":", " ">>
        \o JoinComma(unresolved)

\* os.environ.get('LIB') under Visual C++.
LibEnv == <<"/", "a", ";", "=", "/", "b">>

\* The lines `<compiler_cmd> -print-search-dirs` prints.
SearchDirsOutput ==
    << <<"i", "n", "s", "t", "a", "l", "l", ":", " ", "/", "i">>,
       <<"l", "i", "b", "r", "a", "r", "i", "e", "s", ":", " ", "=", "/",
               "b", ";", "/", "a", "/">> >>

\* The search directories: LIB split at ';' under Visual C++, else the
\* last line of the compiler's output that starts with 'libraries: '.
LibSearch(msvc) ==
    IF msvc
    THEN SplitOn(LibEnv, ";")
    ELSE LET o == SearchDirsOutput
             hits == {j \in 1..Len(o) : StartsWith(o[j], <<"l", "i", "b",
                     "r", "a", "r", "i", "e", "s", ":", " ">>)}
         IN  IF hits = {} THEN <<>>
             ELSE LET j == CHOOSE j \in hits : \A h \in hits : h <= j
                  IN  SplitOn(SubSeq(o[j], 12, Len(o[j])), ";")

\* The inputs of resolve_windows_libs.
MaxFiles == 2
Bar == <<"b", "a", "r">>
Baz == <<"b", "a", "z">>
RequestLists == {<<>>, <<Bar>>, <<Baz>>, <<Bar, Baz>>, <<Baz, Bar>>}

\* The import libraries the search directories may hold.
PathPool ==
    { <<"/", "a", "/">> \o Candidates(Bar)[2],
      <<"/", "a", "/">> \o Candidates(Bar)[5],
      <<"/", "b", "/">> \o Candidates(Bar)[1],
      <<"/", "b", "/">> \o Candidates(Bar)[2],
      <<"/", "a", "/">> \o Candidates(Baz)[4],
      <<"/", "b", "/">> \o Candidates(Baz)[3] }

\* What the tool prints for an import library, as lines.
ToolOutputs ==
    { <<>>,
      << <<"b", "a", "r", "-", "1", ".", "d", "l", "l">>, <<"z", ".", "d",
              "l", "l">> >>,
      << <<"x", " ", "y">>,
         <<"a", " ", "x", "_", "_", "I", "M", "P", "O", "R", "T", "_",
                 "D", "E", "S", "C", "R", "I", "P", "T", "O", "R", "_",
                         "c", " ", " ", "_", "_", "I", "M", "P", "O", "R",
                                 "T", "_", "D", "E", "S", "C", "R", "I",
                                         "P", "T", "O", "R", "_", "b",
                                                 " ", "_", "_", "I", "M",
                                                         "P", "O", "R",
                                                                 "T", "_", "D", "E", "S", "C", "R", "I", "P", "T", "O", "R", "_", "d">>,
         <<"_", "_", "I", "M", "P", "O", "R", "T", "_", "D", "E", "S",
                 "C", "R", "I", "P", "T", "O", "R", "_", "e">> >>,
      << <<"x", "_", "_", "I", "M", "P", "O", "R", "T", "_", "D", "E",
              "S", "C", "R", "I", "P", "T", "O", "R", "_", "c">> >> }

FileSets == {S \in SUBSET PathPool : Cardinality(S) <= MaxFiles}

ResolveStart ==
    /\ rpc = "idle"
    /\ \E m \in BOOLEAN, libs \in RequestLists, S \in FileSets :
         \E out \in [S -> ToolOutputs] :
            /\ rMsvc' = m
            /\ rLibs' = libs
            /\ rFiles' = out
            /\ libsearch' = LibSearch(m)
    /\ rpc' = "loop"
    /\ UNCHANGED <<li, shlibs, not_resolved, scans, exitMsg>>

\* One iteration of `for lib in libraries`.
ResolveLib ==
    /\ rpc = "loop"
    /\ li < Len(rLibs)
    /\ LET lib == rLibs[li + 1]
           r == ScanLib(rMsvc, libsearch, rFiles, lib)
       IN  /\ shlibs' = shlibs \o r.names
           /\ not_resolved' = IF r.found THEN not_resolved
                              ELSE Append(not_resolved, lib)
           /\ scans' = Append(scans, r)
    /\ li' = li + 1
    /\ UNCHANGED <<rpc, rMsvc, rLibs, rFiles, libsearch, exitMsg>>

\* After the loop: SystemExit when a library is left unresolved.
ResolveRaise ==
    /\ rpc = "loop"
    /\ li = Len(rLibs)
    /\ Len(not_resolved) > 0
    /\ rpc' = "exit"
    /\ exitMsg' = ExitMessage(not_resolved)
    /\ UNCHANGED <<rMsvc, rLibs, rFiles, libsearch, li, shlibs, not_resolved,
                   scans>>

\* After the loop: `return shlibs`.
ResolveReturn ==
    /\ rpc = "loop"
    /\ li = Len(rLibs)
    /\ ~(Len(not_resolved) > 0)
    /\ rpc' = "done"
    /\ UNCHANGED <<rMsvc, rLibs, rFiles, libsearch, li, shlibs, not_resolved,
                   scans, exitMsg>>

(***************************************************************************)
(* The specifications: one per component, the other two left at rest.      *)
(***************************************************************************)
CacheInit ==
    /\ cachedirSt \in {"absent", "dir", "file"}
    /\ scannerdirSt \in {"absent", "dir", "file"}
    /\ (cachedirSt # "dir") => (scannerdirSt = "absent")
    /\ ctor = "none"
    /\ ctorExc = NoExc
    /\ mkdirErrs = {}
    /\ directory = None
    /\ fs = [fn \in StoreNames |-> Absent]
    /\ srcMtime = [k \in Keys |-> 0]
    /\ now = 0
    /\ log = <<>>

LinkIdle ==
    /\ linkCall = NoLinkCall
    /\ linkArgs = <<>>

ResolveIdle ==
    /\ rpc = "idle"
    /\ rMsvc = FALSE
    /\ rLibs = <<>>
    /\ rFiles = <<>>
    /\ libsearch = <<>>
    /\ li = 0
    /\ shlibs = <<>>
    /\ not_resolved = <<>>
    /\ scans = <<>>
    /\ exitMsg = <<>>

Init == CacheInit /\ LinkIdle /\ ResolveIdle

Next ==
    \/ Construct /\ UNCHANGED <<linkVars, resolveVars>>
    \/ \E k \in Keys, v \in Values, e \in DumpErrnos :
         \E n \in IF e = "OK" THEN {0} ELSE 0..1 :
           /\ e # "OK" => StoreWrites(k)
           /\ Store(k, v, e, n) /\ UNCHANGED <<linkVars, resolveVars>>
    \/ \E k \in Keys, e \in UnlinkErrnos :
         /\ e # "OK" => LoadPurges(k)
         /\ Load(k, e) /\ UNCHANGED <<linkVars, resolveVars>>
    \/ \E k \in Keys : Touch(k) /\ UNCHANGED <<linkVars, resolveVars>>
    \/ \E fn \in StoreNames, n \in 0..1 :
         Truncate(fn, n) /\ UNCHANGED <<linkVars, resolveVars>>
    \/ Tick /\ UNCHANGED <<linkVars, resolveVars>>

Spec == Init /\ [][Next]_vars

CacheAtRest == CacheInit /\ cachedirSt = "dir" /\ scannerdirSt = "dir"

LinkInit == CacheAtRest /\ LinkIdle /\ ResolveIdle

LinkNext ==
    \/ GetInternalLinkFlags /\ UNCHANGED <<cacheVars, resolveVars>>
    \/ GetExternalLinkFlags /\ UNCHANGED <<cacheVars, resolveVars>>

LinkSpec == LinkInit /\ [][LinkNext]_vars

ResolveInit == CacheAtRest /\ LinkIdle /\ ResolveIdle

ResolveNext ==
    \/ ResolveStart /\ UNCHANGED <<cacheVars, linkVars>>
    \/ ResolveLib /\ UNCHANGED <<cacheVars, linkVars>>
    \/ ResolveRaise /\ UNCHANGED <<cacheVars, linkVars>>
    \/ ResolveReturn /\ UNCHANGED <<cacheVars, linkVars>>

ResolveSpec == ResolveInit /\ [][ResolveNext]_vars

(***************************************************************************)
(* The claims about cachestore.py.  A log entry is one call; consecutive   *)
(* entries are consecutive calls on one key with no change to the source   *)
(* file or the store file from outside in between.                         *)
(***************************************************************************)
FileOf(k) == fs[<<"g-ir-scanner", Sha1(k)>>]

\* The store file as call i of the log left it.
Post(i) == IF i < Len(log) THEN log[i + 1].pre ELSE FileOf(log[i].k)

\* The store file call i found was a valid entry.
FoundValid(i) ==
    /\ log[i].pre.exists
    /\ log[i].pre.mtime >= srcMtime[log[i].k]

\* No I/O error was injected into call i.
NoFault(i) == log[i].fault = "OK"

IsStore(i) == i <= Len(log) /\ log[i].op = "store" /\ NoFault(i)
IsLoad(i) == i <= Len(log) /\ log[i].op = "load" /\ NoFault(i)

\* C1 as stated: with caching enabled, store(k, v) followed immediately by
\* load(k) returns v, whatever the state store found.
C1_StoreThenLoadAlways ==
    \A i \in 1..Len(log) :
        (directory # None /\ IsStore(i) /\ IsLoad(i + 1))
            => log[i + 1].ret = log[i].v

\* C1 amended: with caching enabled, store(k, v) called when no valid entry
\* for k exists, followed immediately by load(k), returns v.
C1_StoreThenLoadFresh ==
    \A i \in 1..Len(log) :
        (directory # None /\ IsStore(i) /\ ~FoundValid(i) /\ IsLoad(i + 1))
            => (log[i + 1].out = "returned" /\ log[i + 1].ret = log[i].v)

C1_Witness ==
    \E i \in 1..Len(log) :
        /\ directory # None /\ IsStore(i) /\ ~FoundValid(i) /\ IsLoad(i + 1)
        /\ log[i].v \in Values
        /\ log[i + 1].ret = log[i].v

\* C2: load(k) on a store file older than the source file returns absent and
\* leaves the store file as it was.
C2_StaleLoadAbsent ==
    \A i \in 1..Len(log) :
        (/\ log[i].op = "load"
         /\ log[i].pre.exists
         /\ log[i].pre.mtime < srcMtime[log[i].k])
            => (/\ log[i].out = "returned"
                /\ log[i].ret = None
                /\ Post(i) = log[i].pre)

C2_Witness ==
    \E i \in 1..Len(log), v \in Values :
        /\ log[i].op = "load"
        /\ log[i].pre.exists
        /\ log[i].pre.content = Dumps(v)
        /\ log[i].pre.mtime < srcMtime[log[i].k]
        /\ log[i].ret = None
        /\ FileOf(log[i].k).content = Dumps(v)

\* C3 as stated: store(k, v1), store(k, v2), load(k) with the source file
\* untouched: the second store writes nothing and load returns v1.
C3_SecondStoreKeepsV1Always ==
    \A i \in 1..Len(log) :
        (directory # None /\ IsStore(i) /\ IsStore(i + 1))
            => (/\ log[i + 1].out = "skipped"
                /\ IsLoad(i + 2) => log[i + 2].ret = log[i].v)

\* C3 amended: when the first store found no valid entry (so that it wrote
\* v1), the second store writes nothing and load returns v1.
C3_SecondStoreKeepsWritten ==
    \A i \in 1..Len(log) :
        (directory # None /\ IsStore(i) /\ ~FoundValid(i) /\ IsStore(i + 1))
            => (/\ log[i + 1].out = "skipped"
                /\ Post(i + 1) = log[i + 1].pre
                /\ Post(i + 1).content = Dumps(log[i].v)
                /\ IsLoad(i + 2) => log[i + 2].ret = log[i].v)

C3_Witness ==
    \E i \in 1..Len(log) :
        /\ directory # None /\ IsStore(i) /\ ~FoundValid(i) /\ IsStore(i + 1)
        /\ IsLoad(i + 2)
        /\ log[i + 1].v # log[i].v
        /\ log[i + 2].ret = log[i].v

\* C4: load(k) on a store file of zero bytes that is not stale returns
\* absent and removes the file; the next store(k, v) writes the entry and
\* the load after it returns v.
C4_TruncatedEntryHeals ==
    \A i \in 1..Len(log) :
        (IsLoad(i) /\ FoundValid(i) /\ log[i].pre.content = <<>>)
            => (/\ log[i].out = "returned"
                /\ log[i].ret = None
                /\ ~Post(i).exists
                /\ IsStore(i + 1) =>
                     (/\ log[i + 1].out = "wrote"
                      /\ Post(i + 1).exists
                      /\ Post(i + 1).content = Dumps(log[i + 1].v)
                      /\ IsLoad(i + 2) => log[i + 2].ret = log[i + 1].v))

C4_Witness ==
    \E i \in 1..Len(log) :
        /\ IsLoad(i) /\ FoundValid(i) /\ log[i].pre.content = <<>>
        /\ IsStore(i + 1) /\ IsLoad(i + 2)
        /\ ~log[i + 1].pre.exists
        /\ log[i + 2].ret = log[i + 1].v
        /\ log[i + 2].ret \in Values

\* C5: when an os.mkdir of the constructor fails with a permissions error,
\* or ~/.cache or ~/.cache/g-ir-scanner is a regular file, CacheStore()
\* does not raise, store touches no file and load returns absent.
C5_DegradesSilently ==
    (/\ ctor # "none"
     /\ \/ mkdirErrs \cap {"EPERM", "EACCES"} # {}
        \/ cachedirSt = "file"
        \/ scannerdirSt = "file")
        => (/\ ctor = "ok"
            /\ directory = None
            /\ \A fn \in StoreNames : ~fs[fn].exists
            /\ \A i \in 1..Len(log) : log[i].ret = None /\ log[i].exc = NoExc)

\* C6: store returns normally when cPickle.dump fails with ENOSPC, and lets
\* any other I/O error of cPickle.dump through.
C6_StoreSwallowsOnlyENOSPC ==
    \A i \in 1..Len(log) :
        (log[i].op = "store" /\ log[i].fault # "OK")
            => IF log[i].fault = "ENOSPC"
               THEN log[i].exc = NoExc
               ELSE log[i].exc = Exc("IOError", log[i].fault)

\* C10: _purge_cache returns normally when os.unlink fails with EACCES or
\* ENOENT, so that load returns absent, and lets any other error through.
C10_PurgeSwallowsEaccesEnoent ==
    \A i \in 1..Len(log) :
        (log[i].op = "load" /\ log[i].fault # "OK")
            => IF log[i].fault \in {"EACCES", "ENOENT"}
               THEN log[i].exc = NoExc /\ log[i].ret = None
               ELSE log[i].exc.errno = log[i].fault

(***************************************************************************)
(* The claims about ccompiler.py.                                          *)
(***************************************************************************)
\* Where the libraries start in `args` after the last link-flag call.
C7_Offset ==
    Len(linkCall.args) +
    (IF linkCall.fn = "external" \/ linkCall.compiler = "msvc" THEN 0
     ELSE IF linkCall.libtool THEN 1 ELSE 3)

C7_Emitted(j) == linkArgs[C7_Offset + j]

\* C7 as stated: one argument per library, in order: a name ending in .la
\* unmodified in every family, else <name>.lib under MSVC and -l<name>
\* elsewhere.
C7_LaVerbatimEverywhere ==
    linkCall.fn # "none" =>
        /\ Len(linkArgs) >= C7_Offset + Len(linkCall.libraries)
        /\ \A j \in 1..Len(linkCall.libraries) :
             LET name == linkCall.libraries[j]
             IN  C7_Emitted(j) =
                   IF EndsWith(name, <<".", "l", "a">>) THEN name
                   ELSE IF linkCall.compiler = "msvc" THEN name \o <<".",
                           "l", "i", "b">>
                   ELSE <<"-", "l">> \o name

\* C7 amended: one argument per library, in order: <name>.lib under MSVC for
\* every name, those ending in .la included; elsewhere a name ending in .la
\* unmodified and -l<name> for any other.
C7_LaVerbatimUnixOnly ==
    linkCall.fn # "none" =>
        /\ Len(linkArgs) >= C7_Offset + Len(linkCall.libraries)
        /\ linkCall.fn = "external" =>
             Len(linkArgs) = C7_Offset + Len(linkCall.libraries)
        /\ \A j \in 1..Len(linkCall.libraries) :
             LET name == linkCall.libraries[j]
             IN  C7_Emitted(j) =
                   IF linkCall.compiler = "msvc" THEN name \o <<".", "l",
                           "i", "b">>
                   ELSE IF EndsWith(name, <<".", "l", "a">>) THEN name
                   ELSE <<"-", "l">> \o name

C7_Witness ==
    /\ linkCall.fn = "internal"
    /\ linkCall.compiler = "msvc"
    /\ Len(linkCall.libraries) = 2
    /\ linkCall.libraries[1] = <<"f", ".", "l", "a">>
    /\ C7_Emitted(1) = <<"f", ".", "l", "a", ".", "l", "i", "b">>
    /\ C7_Emitted(2) = <<"f", "o", "o", ".", "l", "i", "b">>

\* A library has a match: some candidate of it exists in some search
\* directory and the output of the tool for it yields a name.
C8_Resolvable(lib) ==
    \E d \in 1..Len(libsearch), c \in 1..5 :
        LET p == PathJoin(StripMarker(libsearch[d]), Candidates(lib)[c])
        IN  p \in DOMAIN rFiles /\ ParseOutput(rMsvc, rFiles[p]).found

\* C8: resolve_windows_libs ends in SystemExit exactly when a requested
\* library has no match, the message names each library without a match
\* and no other, and it returns normally when every library has one.
C8_FailsNamingUnresolved ==
    rpc \in {"done", "exit"} =>
        /\ rpc = "exit" <=> \E i \in 1..Len(rLibs) : ~C8_Resolvable(rLibs[i])
        /\ rpc = "exit" =>
             \A lib \in {Bar, Baz} :
                Contains(exitMsg, lib) <=>
                    /\ \E i \in 1..Len(rLibs) : rLibs[i] = lib
                    /\ ~C8_Resolvable(lib)
        /\ rpc = "done" => exitMsg = <<>> /\ Len(shlibs) = Len(rLibs)

C8_Witness ==
    /\ rpc = "exit"
    /\ rLibs = <<Bar, Baz>>
    /\ C8_Resolvable(Bar)
    /\ ~C8_Resolvable(Baz)
    /\ Contains(exitMsg, Baz)
    /\ ~Contains(exitMsg, Bar)

\* The paths of one library in the order of the claim: the search
\* directories in list order, a leading '=' dropped, and in each the
\* candidates lib<name>.dll.a, lib<name>.a, <name>.dll.a, <name>.a,
\* <name>.lib.
C9_Order(lib) ==
    LET names == << <<"l", "i", "b">> \o lib \o <<".", "d", "l", "l", ".",
            "a">>,
                    <<"l", "i", "b">> \o lib \o <<".", "a">>,
                    lib \o <<".", "d", "l", "l", ".", "a">>,
                    lib \o <<".", "a">>,
                    lib \o <<".", "l", "i", "b">> >>
        dir(l) == IF l # <<>> /\ l[1] = "=" THEN Tail(l) ELSE l
    IN  [p \in 1..(5 * Len(libsearch)) |->
            PathJoin(dir(libsearch[((p - 1) \div 5) + 1]),
                     names[((p - 1) % 5) + 1])]

C9_Hit(order, p) ==
    order[p] \in DOMAIN rFiles /\ ParseOutput(rMsvc, rFiles[order[p]]).found

C9_Existing(paths) == SelectSeq(paths, LAMBDA q : q \in DOMAIN rFiles)

\* C9: each library is resolved from the first existing candidate, in the
\* order above, whose output yields a name; one name is recorded for it and
\* nothing after that candidate is looked at or handed to the tool.
C9_FirstMatchInOrder ==
    /\ Len(scans) = li
    /\ \A i \in 1..Len(scans) :
         LET order == C9_Order(rLibs[i])
             hits == {p \in 1..Len(order) : C9_Hit(order, p)}
         IN  IF hits = {}
             THEN /\ ~scans[i].found
                  /\ scans[i].names = <<>>
                  /\ scans[i].probed = order
                  /\ scans[i].invoked = C9_Existing(order)
             ELSE LET h == CHOOSE p \in hits : \A q \in hits : p <= q
                  IN  /\ scans[i].found
                      /\ scans[i].names =
                           <<ParseOutput(rMsvc, rFiles[order[h]]).name>>
                      /\ scans[i].probed = SubSeq(order, 1, h)
                      /\ scans[i].invoked = C9_Existing(SubSeq(order, 1, h))
    /\ shlibs = Flatten([i \in 1..Len(scans) |-> scans[i].names])

C9_Witness ==
    /\ rpc = "done"
    /\ ~rMsvc
    /\ rLibs = <<Bar>>
    /\ libsearch[1] = <<"=", "/", "b">>
    /\ shlibs = << <<"b", "a", "r", "-", "1", ".", "d", "l", "l">> >>
    /\ scans[1].invoked = << <<"/", "b", "/", "l", "i", "b", "b", "a",
            "r", ".", "d", "l", "l", ".", "a">>, <<"/", "b", "/", "l",
                    "i", "b", "b", "a", "r", ".", "a">> >>
    /\ Len(scans[1].probed) = 2

=============================================================================
